---- MODULE Spec2Model ----
(***************************************************************************)
(* A model of WaveSurfer.Drawer.CanvasPitch (src/src/drawer.canvaspitch.js) *)
(* the canvas drawer that overlays a pitch contour on the waveform.         *)
(*                                                                          *)
(* Numbers.  Times and pitches of the samples are integers.  Averages and   *)
(* normalised pitches are exact fractions [n, d] in lowest terms with       *)
(* d > 0; the three non-finite doubles are 1/0 (Infinity), -1/0             *)
(* (-Infinity) and 0/0 (NaN).  An optional value (a key that may be         *)
(* missing from an object, read as undefined) is the empty tuple or a       *)
(* one-element tuple.                                                       *)
(***************************************************************************)
EXTENDS Integers, Sequences, FiniteSets, TLC

VARIABLES
    defaultCanvasPitchParams, \* the one defaults object on the prototype
    drawer,                   \* the drawer instances, by name
    supplied,                 \* the params each instance was initialised with
    lastCall                  \* the operation that ran last

vars == <<defaultCanvasPitchParams, drawer, supplied, lastCall>>

----------------------------------------------------------------------------
(* Bounds of the model *)

\* longest pitch series (inline or parsed from a file)
MaxLen == 3
\* draw requests issued to one instance
MaxDraws == 2

Instances == {"a", "b"}

\* samples the series are built from: {time, pitch}.  Times are whole
\* numbers of half seconds (a column depends on the ratio of two time
\* differences only); series need not be sorted by time
Samples ==
    {[time |-> 0, pitch |-> 100],
     [time |-> 1, pitch |-> 120], [time |-> 1, pitch |-> 140],
     [time |-> 2, pitch |-> 140], [time |-> 2, pitch |-> 100]}

RECURSIVE SeqsUpTo(_, _)
SeqsUpTo(S, n) ==
    IF n = 0 THEN {<<>>}
    ELSE LET shorter == SeqsUpTo(S, n - 1)
         IN  shorter \cup {Append(s, x) : s \in {t \in shorter : Len(t) = n - 1}, x \in S}

AllSeries == SeqsUpTo(Samples, MaxLen)

\* canvas widths a draw request asks for (the length argument of drawPeaks)
Widths == {2, 3}

----------------------------------------------------------------------------
(* Optional values *)

Undefined == <<>>
Some(v) == <<v>>
IsDefined(o) == Len(o) > 0
Val(o) == o[1]

----------------------------------------------------------------------------
(* Numbers: fractions and the non-finite doubles *)

Abs(k) == IF k < 0 THEN -k ELSE k
Sign(k) == IF k < 0 THEN -1 ELSE IF k > 0 THEN 1 ELSE 0

RECURSIVE GCD(_, _)
GCD(a, b) == IF b = 0 THEN a ELSE GCD(b, a % b)

\* the number n/d: lowest terms, d >= 0; d = 0 gives Infinity, -Infinity or NaN
Num(n, d) ==
    IF d = 0 THEN [n |-> Sign(n), d |-> 0]
    ELSE LET g == GCD(Abs(n), Abs(d))
         IN  [n |-> Sign(d) * (n \div g), d |-> Abs(d) \div g]

Int2Num(k) == [n |-> k, d |-> 1]
NaN == [n |-> 0, d |-> 0]
IsNaN(x) == x.n = 0 /\ x.d = 0

\* x < y and x > y as the language compares doubles: false when either is NaN
Lt(x, y) == ~IsNaN(x) /\ ~IsNaN(y) /\ x.n * y.d < y.n * x.d
Gt(x, y) == Lt(y, x)
\* x - y, x * y, x / y for finite x and y (x / 0 is non-finite)
Sub(x, y) == Num(x.n * y.d - y.n * x.d, x.d * y.d)
Mul(x, y) == Num(x.n * y.n, x.d * y.d)
Div(x, y) == Num(x.n * y.d, x.d * y.n)

RECURSIVE Sum(_)
Sum(s) == IF s = <<>> THEN 0 ELSE Head(s) + Sum(Tail(s))

\* Math.round(n / d) for d > 0: the nearest integer, halves towards +Infinity
Round(n, d) == (2 * n + d) \div (2 * d)

----------------------------------------------------------------------------
(* The host library: extend, setWidth and the Observer mixin *)

\* WaveSurfer.util.extend(dest, source): copies every key of source into dest
\* and returns dest.  A key missing from source is Undefined in the record.
extend(dest, source) ==
    [k \in DOMAIN dest |-> IF IsDefined(source[k]) THEN source[k] ELSE dest[k]]

\* Drawer.setWidth(width)
setWidth(d, width) == [d EXCEPT !.width = width]

\* Observer.on(event, fn): fn is the deferred redraw, kept by its length
\* argument and the number of times it has run
on(d, event, length) ==
    [d EXCEPT !.handlers[event] = Append(@, [length |-> length, runs |-> 0])]

----------------------------------------------------------------------------
(* The drawer's parameters *)

PitchArrayLoadedFired == "pitch_array_loaded"
PitchArrayLoadedAwaited == "pitch-array-loaded"
EventNames == {PitchArrayLoadedFired, PitchArrayLoadedAwaited}

\* defaultCanvasPitchParams as written in the source: pitchTimeEnd, height
\* and pixelRatio are no keys of it (the colours and widths, which no
\* computation reads, are left out)
DefaultParams ==
    [pitchTimeStart   |-> Some(0),
     pitchTimeEnd     |-> Undefined,
     pitchNormalizeTo |-> Some("values"),
     pitchMin         |-> Some(70),
     pitchMax         |-> Some(200),
     pitchPointHeight |-> Some(2),
     height           |-> Undefined,
     pixelRatio       |-> Undefined]

ParamKeys == DOMAIN DefaultParams

EmptyPitches == [k \in {} |-> NaN]

\* an instance before initDrawer: the fields it inherits from the prototype
NewDrawer ==
    [created          |-> FALSE,
     pitchTimeStart   |-> 0,
     pitchTimeEnd     |-> -1,
     pitchArray       |-> <<>>,
     pitches          |-> EmptyPitches,
     pitchArrayLoaded |-> FALSE,
     width            |-> 0,
     handlers         |-> [e \in EventNames |-> <<>>],
     ajax             |-> "none",
     status           |-> 0,
     fired            |-> <<>>,
     requests         |-> 0,
     draws            |-> 0,
     rowHeight        |-> NaN,
     markers          |-> {}]

----------------------------------------------------------------------------
(* calculatePitches and what it calls *)

\* avg(values), values not empty
avg(values) == Num(Sum(values), Len(values))

\* the position Math.round gives that is no number
NaNPosition == -2

\* Math.round(width * (time - pitchTimeStart) / duration) of a sample in the
\* window; a window of duration 0 divides 0 by 0
pitchPositionOf(width, time, timeStart, duration) ==
    IF duration = 0 THEN NaNPosition
    ELSE Round(width * (time - timeStart), duration)

\* pitchPosition !== previousPosition
StrictNotEqual(p, q) == p = NaNPosition \/ q = NaNPosition \/ p # q

\* the loop's variables before the first sample; the minima start at
\* 99999999999, above every pitch of Samples, written Undefined here.
\* averages is not in the source: it keeps every avgPitch the loop computes,
\* in order, for the properties to speak of
LoopStart ==
    [pitches           |-> EmptyPitches,
     pitchesForAverage |-> <<>>,
     previousPosition  |-> -1,
     maxPitch          |-> Int2Num(0),
     minPitch          |-> Undefined,
     maxSegmentPitch   |-> Int2Num(0),
     minSegmentPitch   |-> Undefined,
     averages          |-> <<>>]

\* x > max and x < min of the running extrema
Above(x, max) == Gt(x, max)
Below(x, min) == ~IsDefined(min) \/ Lt(x, Val(min))

Put(f, k, v) == [x \in DOMAIN f \cup {k} |-> IF x = k THEN v ELSE f[x]]

\* one turn of the loop over pitchArray
LoopBody(acc, dataPoint, timeStart, timeEnd, width) ==
    LET duration == timeEnd - timeStart
        a1 == [acc EXCEPT
                 !.maxPitch = IF Above(Int2Num(dataPoint.pitch), @)
                              THEN Int2Num(dataPoint.pitch) ELSE @,
                 !.minPitch = IF Below(Int2Num(dataPoint.pitch), @)
                              THEN Some(Int2Num(dataPoint.pitch)) ELSE @]
    IN  IF dataPoint.time >= timeStart /\ dataPoint.time <= timeEnd
        THEN LET pitchPosition ==
                     pitchPositionOf(width, dataPoint.time, timeStart, duration)
                 pushed == Append(a1.pitchesForAverage, dataPoint.pitch)
                 avgPitch == avg(pushed)
             IN  IF StrictNotEqual(pitchPosition, a1.previousPosition)
                    /\ Len(pushed) > 0
                 THEN [a1 EXCEPT
                         !.maxSegmentPitch =
                             IF Above(avgPitch, @) THEN avgPitch ELSE @,
                         !.minSegmentPitch =
                             IF Below(avgPitch, @) THEN Some(avgPitch) ELSE @,
                         !.pitches = Put(@, a1.previousPosition, avgPitch),
                         !.averages = Append(@, avgPitch),
                         !.pitchesForAverage = <<>>,
                         !.previousPosition = pitchPosition]
                 ELSE [a1 EXCEPT
                         !.pitchesForAverage = pushed,
                         !.previousPosition = pitchPosition]
        ELSE a1

RECURSIVE Loop(_, _, _, _, _)
Loop(acc, pitchArray, timeStart, timeEnd, width) ==
    IF pitchArray = <<>> THEN acc
    ELSE Loop(LoopBody(acc, Head(pitchArray), timeStart, timeEnd, width),
              Tail(pitchArray), timeStart, timeEnd, width)

\* normalizePitches without its upper clamp
normalizePitchNoCeiling(value, min, max) ==
    LET pitch == Div(Sub(value, min), Sub(max, min))
    IN  IF Lt(pitch, Int2Num(0)) THEN Int2Num(0) ELSE pitch

\* normalizePitches(min, max) on one value
normalizePitch(value, min, max) ==
    LET pitch == Div(Sub(value, min), Sub(max, min))
        high == IF Gt(pitch, Int2Num(1)) THEN Int2Num(1) ELSE pitch
    IN  IF Lt(high, Int2Num(0)) THEN Int2Num(0) ELSE high

\* normalizePitches(min, max); min is an optional number (see LoopStart)
normalizePitches(pitches, min, max) ==
    [i \in DOMAIN pitches |-> normalizePitch(pitches[i], Val(min), max)]

\* the choice of range with the last branch taking the extrema of the whole
\* series
NormalizeRangeOtherIsWhole(params, acc) ==
    IF params.pitchNormalizeTo = Some("values")
    THEN [min |-> Some(Int2Num(Val(params.pitchMin))),
          max |-> Int2Num(Val(params.pitchMax))]
    ELSE [min |-> acc.minPitch, max |-> acc.maxPitch]

\* the range calculatePitches normalises to, chosen by params.pitchNormalizeTo
NormalizeRange(params, acc) ==
    IF params.pitchNormalizeTo = Some("whole")
    THEN [min |-> acc.minPitch, max |-> acc.maxPitch]
    ELSE IF params.pitchNormalizeTo = Some("values")
    THEN [min |-> Some(Int2Num(Val(params.pitchMin))),
          max |-> Int2Num(Val(params.pitchMax))]
    ELSE [min |-> acc.minSegmentPitch, max |-> acc.maxSegmentPitch]

\* calculatePitchTimeEnd throws a TypeError when it reads the time of the
\* last sample of an empty pitchArray
PitchTimeEndThrows(params, d) ==
    ~IsDefined(params.pitchTimeEnd) /\ Len(d.pitchArray) = 0

calculatePitchTimeEnd(params, d) ==
    IF IsDefined(params.pitchTimeEnd)
    THEN [d EXCEPT !.pitchTimeEnd = Val(params.pitchTimeEnd)]
    ELSE [d EXCEPT !.pitchTimeEnd = d.pitchArray[Len(d.pitchArray)].time]

\* calculatePitches, when calculatePitchTimeEnd returns
calculatePitches(params, d) ==
    LET d1 == calculatePitchTimeEnd(params, d)
        acc == Loop(LoopStart, d1.pitchArray, d1.pitchTimeStart,
                    d1.pitchTimeEnd, d1.width)
        range == NormalizeRange(params, acc)
    IN  [d1 EXCEPT !.pitches = normalizePitches(acc.pitches, range.min, range.max)]

----------------------------------------------------------------------------
(* drawPitches, drawPeaks, the loader and initDrawer *)

\* drawPitches(channelIndex): one fillRect on each canvas per key of pitches,
\* at x = parseInt(key) and y; the markers of the pass replace those before
drawPitches(params, d, channelIndex) ==
    LET height == Num(Val(params.height) * Val(params.pixelRatio), 2)
        offsetY == Mul(height, Int2Num(channelIndex))
        room == Sub(height, Int2Num(Val(params.pitchPointHeight)))
        y(i) == Sub(Sub(offsetY, Sub(Int2Num(0), room)), Mul(d.pitches[i], room))
    IN  [d EXCEPT !.rowHeight = height,
                  !.markers = {[x |-> i, y |-> y(i)] : i \in DOMAIN d.pitches}]

\* drawPeaks(peaks, length, start, end) on the world w = [params, d, threw]:
\* the defaults object, the instance, and whether an exception has escaped.
\* The waveform itself (drawBars, drawWave) only paints and is left out.
drawPeaks(w, length) ==
    IF w.d.pitchArrayLoaded
    THEN LET sized == setWidth(w.d, length)
         IN  IF PitchTimeEndThrows(w.params, sized)
             THEN [w EXCEPT !.d = [sized EXCEPT !.pitches = EmptyPitches],
                            !.threw = TRUE]
             ELSE [w EXCEPT
                     !.d = [drawPitches(w.params, calculatePitches(w.params, sized), 0)
                              EXCEPT !.draws = @ + 1],
                     !.params.pixelRatio = Some(2)]
    ELSE [w EXCEPT !.d = on(w.d, PitchArrayLoadedAwaited, length)]

\* Observer.fireEvent(event): calls the handlers registered for event, in
\* order; an exception of a handler ends the call
RECURSIVE CallHandlers(_, _, _)
CallHandlers(w, event, j) ==
    IF w.threw \/ j > Len(w.d.handlers[event]) THEN w
    ELSE CallHandlers(
             drawPeaks([w EXCEPT !.d.handlers[event][j].runs = @ + 1],
                       w.d.handlers[event][j].length),
             event, j + 1)

\* each emission is kept with what a subscriber would find at that moment:
\* the loaded flag and the series of the instance
fireEvent(w, event) ==
    CallHandlers([w EXCEPT !.d.fired =
                      Append(@, [event  |-> event,
                                 loaded |-> w.d.pitchArrayLoaded,
                                 series |-> w.d.pitchArray])],
                 event, 1)

\* the callback emitting before it stores the series and sets the flag
onPitchArrayLoadedFiresFirst(w, pitchArray) ==
    LET fired == fireEvent(w, PitchArrayLoadedFired)
    IN  [fired EXCEPT !.d.pitchArray = pitchArray,
                      !.d.pitchArrayLoaded = TRUE]

\* the callback initDrawer hands to the loader
onPitchArrayLoaded(w, pitchArray) ==
    fireEvent([w EXCEPT !.d.pitchArray = pitchArray,
                        !.d.pitchArrayLoaded = TRUE],
              PitchArrayLoadedFired)

\* the lines of the file, each split at its tabs: a line of exactly two
\* fields is a sample (the fields here are the numbers parseFloat reads)
ParseLines(pitchLines) ==
    LET two == SelectSeq(pitchLines, LAMBDA pitchParts : Len(pitchParts) = 2)
    IN  [k \in 1..Len(two) |-> [time |-> two[k][1], pitch |-> two[k][2]]]

\* the 'load' handler without its test of the status
OnAjaxLoadAnyStatus(w, status, pitchLines) ==
    onPitchArrayLoaded(w, ParseLines(pitchLines))

\* the 'load' handler of loadPitchArrayFromFile
OnAjaxLoad(w, status, pitchLines) ==
    IF status = 200
    THEN onPitchArrayLoaded(w, ParseLines(pitchLines))
    ELSE w

\* initDrawer(params): p has every key of the defaults and pitchArray, a
\* key the caller leaves out being Undefined
initDrawer(w, p) ==
    LET merged == extend(w.params, p)
        d0 == [w.d EXCEPT
                 !.created = TRUE,
                 !.pitchTimeStart = Val(merged.pitchTimeStart),
                 !.pitchTimeEnd = IF IsDefined(merged.pitchTimeEnd)
                                  THEN Val(merged.pitchTimeEnd) ELSE @,
                 !.pitchArrayLoaded = FALSE]
    IN  [w EXCEPT
           !.params = merged,
           !.d = IF IsDefined(p.pitchArray)
                 THEN [d0 EXCEPT !.pitchArray = Val(p.pitchArray),
                                 !.pitchArrayLoaded = TRUE]
                 ELSE [d0 EXCEPT !.ajax = "pending"]]

\* this.params of an instance: initDrawer makes it the defaults object itself
ParamsOf(i) == defaultCanvasPitchParams

World(i) == [params |-> defaultCanvasPitchParams, d |-> drawer[i], threw |-> FALSE]

----------------------------------------------------------------------------
(* The inputs *)

\* the params a caller passes to initDrawer
OptionsOf(arrays, starts, ends, norms, ranges, ratios) ==
    {[pitchArray       |-> pa,
      pitchTimeStart   |-> ts,
      pitchTimeEnd     |-> te,
      pitchNormalizeTo |-> nt,
      pitchMin         |-> r[1],
      pitchMax         |-> r[2],
      pitchPointHeight |-> Undefined,
      height           |-> Some(128),
      pixelRatio       |-> pr] :
        pa \in arrays, ts \in starts, te \in ends, nt \in norms,
        r \in ranges, pr \in ratios}

ExampleSeries ==
    <<[time |-> 0, pitch |-> 100], [time |-> 1, pitch |-> 120],
      [time |-> 2, pitch |-> 140]>>

\* the initialisations of the life-cycle specification
Options ==
    OptionsOf({Undefined, Some(ExampleSeries)},
              {Undefined},
              {Undefined, Some(2)},
              {Undefined},
              {<<Undefined, Undefined>>},
              {Some(1), Some(2)})

\* the initialisations of the aggregation specification
CalcOptions ==
    OptionsOf({Some(s) : s \in AllSeries},
              {Undefined, Some(1)},
              {Undefined, Some(1), Some(2)},
              {Undefined, Some("whole"), Some("values"), Some("segment"), Some("none")},
              {<<Undefined, Undefined>>},
              {Some(2)})
    \cup
    OptionsOf({Some(s) : s \in AllSeries},
              {Undefined, Some(1)},
              {Undefined, Some(1), Some(2)},
              {Undefined, Some("values")},
              {<<Some(110), Some(130)>>},
              {Some(2)})

\* series on which the three normalisation ranges tell apart: one whose
\* last column is never stored, one whose samples share one time (so that an
\* average is replaced under a repeated key), and one of negative values
PolicySeries ==
    {<<[time |-> 1, pitch |-> 120], [time |-> 2, pitch |-> 140],
       [time |-> 2, pitch |-> 100]>>,
     <<[time |-> 0, pitch |-> 120], [time |-> 0, pitch |-> 140],
       [time |-> 0, pitch |-> 120]>>,
     <<[time |-> 1, pitch |-> -120], [time |-> 2, pitch |-> -140],
       [time |-> 2, pitch |-> -100]>>}

\* the initialisations of the normalisation-policy specification
PolicyOptions ==
    OptionsOf({Some(s) : s \in PolicySeries},
              {Undefined},
              {Undefined},
              {Undefined, Some("whole"), Some("values"), Some("segment")},
              {<<Undefined, Undefined>>},
              {Some(2)})

\* what a fetch answers: the status and the lines of the body
Responses ==
    {<<<<0, 100>>, <<7>>, <<2, 140>>>>,
     <<<<7>>>>}
Statuses == {200, 404}

----------------------------------------------------------------------------
(* The actions *)

NoCall == [op |-> "none", inst |-> "a", length |-> 0, status |-> 0,
           ran |-> FALSE, threw |-> FALSE]

Commit(i, w) ==
    /\ defaultCanvasPitchParams' = w.params
    /\ drawer' = [drawer EXCEPT ![i] = w.d]

\* new WaveSurfer drawer i: Drawer.init calls initDrawer(params)
InitDrawer(i, p) ==
    /\ ~drawer[i].created
    /\ Commit(i, initDrawer(World(i), p))
    /\ supplied' = [supplied EXCEPT ![i] = p]
    /\ lastCall' = [NoCall EXCEPT !.op = "initDrawer", !.inst = i]

\* the fetch of instance i ends with a status and a body, and the 'load'
\* handler of loadPitchArrayFromFile runs
AjaxLoad(i, status, pitchLines) ==
    /\ drawer[i].ajax = "pending"
    /\ LET w == OnAjaxLoad([World(i) EXCEPT !.d.ajax = "done",
                                             !.d.status = status],
                            status, pitchLines)
       IN  /\ Commit(i, w)
           /\ lastCall' = [NoCall EXCEPT !.op = "load", !.inst = i,
                                         !.status = status, !.threw = w.threw]
    /\ UNCHANGED supplied

\* the host asks instance i to draw at width length
DrawPeaks(i, length) ==
    /\ drawer[i].created
    /\ drawer[i].requests < MaxDraws
    /\ LET w == drawPeaks([World(i) EXCEPT !.d.requests = @ + 1], length)
       IN  /\ Commit(i, w)
           /\ lastCall' = [NoCall EXCEPT !.op = "drawPeaks", !.inst = i,
                                         !.length = length,
                                         !.ran = drawer[i].pitchArrayLoaded,
                                         !.threw = w.threw]
    /\ UNCHANGED supplied

NoOptions == [k \in ParamKeys \cup {"pitchArray"} |-> Undefined]

Init ==
    /\ defaultCanvasPitchParams = DefaultParams
    /\ drawer = [i \in Instances |-> NewDrawer]
    /\ supplied = [i \in Instances |-> NoOptions]
    /\ lastCall = NoCall

Next ==
    \/ \E i \in Instances, p \in Options : InitDrawer(i, p)
    \/ \E i \in Instances, status \in Statuses, pitchLines \in Responses :
           AjaxLoad(i, status, pitchLines)
    \/ \E i \in Instances, length \in Widths : DrawPeaks(i, length)

Spec == Init /\ [][Next]_vars

\* the aggregation on its own: instance "a" initialised inline with any series
\* and window, then drawn
CalcInit ==
    \E p \in CalcOptions :
        LET w == initDrawer([params |-> DefaultParams, d |-> NewDrawer,
                             threw |-> FALSE], p)
        IN  /\ defaultCanvasPitchParams = w.params
            /\ drawer = [i \in Instances |-> IF i = "a" THEN w.d ELSE NewDrawer]
            /\ supplied = [i \in Instances |-> IF i = "a" THEN p ELSE NoOptions]
            /\ lastCall = [NoCall EXCEPT !.op = "initDrawer"]

CalcNext == \E length \in Widths : DrawPeaks("a", length)

CalcSpec == CalcInit /\ [][CalcNext]_vars

\* the normalisation policy across instances: the instances are initialised
\* inline in any order, each with any pitchNormalizeTo or none, and drawn
PolicyNext ==
    \/ \E i \in Instances, p \in PolicyOptions : InitDrawer(i, p)
    \/ \E i \in Instances, length \in Widths : DrawPeaks(i, length)

PolicySpec == Init /\ [][PolicyNext]_vars

----------------------------------------------------------------------------
(* What the properties below speak of *)

\* instance i has just completed a draw pass (aggregate, normalise, render)
Drawn(i) ==
    /\ lastCall.op = "drawPeaks"
    /\ lastCall.inst = i
    /\ lastCall.ran
    /\ ~lastCall.threw

\* the loop's result for the series, window and width instance i now holds:
\* the map before normalisation and the running extrema
Aggregated(i) ==
    Loop(LoopStart, drawer[i].pitchArray, drawer[i].pitchTimeStart,
         drawer[i].pitchTimeEnd, drawer[i].width)

TimeOrdered(series) ==
    \A j \in 1..(Len(series) - 1) : series[j].time <= series[j + 1].time

InWindow(d) ==
    SelectSeq(d.pitchArray,
              LAMBDA s : s.time >= d.pitchTimeStart /\ s.time <= d.pitchTimeEnd)

ColumnOf(d, s) ==
    pitchPositionOf(d.width, s.time, d.pitchTimeStart,
                    d.pitchTimeEnd - d.pitchTimeStart)

PitchesOf(samples) == [j \in 1..Len(samples) |-> samples[j].pitch]

\* for a time-ordered series: every column but the last one reached, with
\* the mean of the samples of the window that fall in it
RunMeans(d) ==
    LET ws == InWindow(d)
        cols == {ColumnOf(d, ws[j]) : j \in 1..Len(ws)}
        final == IF ws = <<>> THEN {} ELSE {ColumnOf(d, ws[Len(ws)])}
    IN  [c \in cols \ final |->
            avg(PitchesOf(SelectSeq(ws, LAMBDA s : ColumnOf(d, s) = c)))]

ValuesOf(f) == {f[k] : k \in DOMAIN f}
MinOf(S) == CHOOSE v \in S : \A u \in S : ~Lt(u, v)
MaxOf(S) == CHOOSE v \in S : \A u \in S : ~Gt(u, v)

NormalizedTo(raw, min, max) ==
    [k \in DOMAIN raw |-> normalizePitch(raw[k], min, max)]

\* normalised to the least and greatest of the averages the map holds
SegmentNormalized(raw) ==
    NormalizedTo(raw, MinOf(ValuesOf(raw)), MaxOf(ValuesOf(raw)))

\* normalised to the least and greatest of the averages the pass computed,
\* those a later one replaced under the same key included; the greatest is
\* taken from 0 upwards, where the running maximum starts
ComputedNormalized(acc) ==
    NormalizedTo(acc.pitches, MinOf(ValuesOf(acc.averages)),
                 MaxOf(ValuesOf(acc.averages) \cup {Int2Num(0)}))

FixedNormalized(raw, params) ==
    NormalizedTo(raw, Int2Num(Val(params.pitchMin)), Int2Num(Val(params.pitchMax)))

----------------------------------------------------------------------------
(* The properties *)

\* C1: every draw request deferred while the series was not loaded has run
\* exactly once, through the whole pipeline, by the time a successful fetch
\* has signalled completion.
C1_DeferredDrawsRun ==
    \A i \in Instances :
        (drawer[i].ajax = "done" /\ drawer[i].status = 200) =>
            \A e \in EventNames : \A j \in 1..Len(drawer[i].handlers[e]) :
                drawer[i].handlers[e][j].runs = 1

\* C2: for a time-ordered series and a window of positive duration, the map
\* before normalisation holds, for every run of samples of one column except
\* the final run, the mean of that run under that run's own column, and
\* nothing else.
C2_RunMeans ==
    (/\ Drawn("a")
     /\ TimeOrdered(drawer["a"].pitchArray)
     /\ drawer["a"].pitchTimeEnd > drawer["a"].pitchTimeStart)
        => Aggregated("a").pitches = RunMeans(drawer["a"])

\* C3: a draw request on an instance given an empty inline pitchArray raises
\* no exception, leaves the pitch map empty and paints no marker, with or
\* without pitchTimeEnd.
C3_EmptySeriesDraws ==
    \A i \in Instances :
        (/\ supplied[i].pitchArray = Some(<<>>)
         /\ lastCall.op = "drawPeaks"
         /\ lastCall.inst = i)
            => /\ ~lastCall.threw
               /\ drawer[i].pitches = EmptyPitches
               /\ drawer[i].markers = {}

\* C4 as claimed: with pitchNormalizeTo not supplied, or supplied as anything
\* but 'whole' and 'values', a draw normalises to the segment range.
C4_DefaultIsSegment ==
    \A i \in Instances :
        (/\ Drawn(i)
         /\ supplied[i].pitchNormalizeTo \notin {Some("whole"), Some("values")}
         /\ DOMAIN Aggregated(i).pitches # {})
            => drawer[i].pitches = SegmentNormalized(Aggregated(i).pitches)

\* the value of pitchNormalizeTo a draw of instance i reads
PolicyInEffect(i) == ParamsOf(i).pitchNormalizeTo

\* a completed draw has normalised by the value in effect
DrawnByPolicyInEffect ==
    \A i \in Instances :
        (Drawn(i) /\ DOMAIN Aggregated(i).pitches # {}) =>
            /\ PolicyInEffect(i) \notin {Some("whole"), Some("values")}
                   => drawer[i].pitches = ComputedNormalized(Aggregated(i))
            /\ PolicyInEffect(i) = Some("values")
                   => drawer[i].pitches =
                          FixedNormalized(Aggregated(i).pitches, ParamsOf(i))

\* C4 as amended: a draw normalises by the value of pitchNormalizeTo that the
\* params object shared by all instances holds when the draw runs: under any
\* value but 'whole' and 'values', to the least and greatest of the
\* per-column averages computed in the pass (the greatest taken from 0
\* upwards); under 'values', to the fixed pitchMin and pitchMax.  The value
\* held is the one most recently supplied to the initDrawer of any instance,
\* and 'values' while none has supplied one: an initDrawer that supplies a
\* value puts it in effect for every instance, and no other step changes it.
C4_SuppliedOtherIsSegment ==
    /\ []DrawnByPolicyInEffect
    /\ [][\A i \in Instances :
              /\ PolicyInEffect(i)' =
                     IF /\ lastCall'.op = "initDrawer"
                        /\ IsDefined(supplied'[lastCall'.inst].pitchNormalizeTo)
                     THEN supplied'[lastCall'.inst].pitchNormalizeTo
                     ELSE PolicyInEffect(i)
              /\ (\A j \in Instances : ~IsDefined(supplied'[j].pitchNormalizeTo))
                     => PolicyInEffect(i)' = Some("values")]_vars

\* instance "b" supplied no pitchNormalizeTo and has drawn to the segment
\* range, which instance "a" put in effect; the range is a proper one and
\* differs in effect from the fixed bounds and from the global extrema
C4_Witness ==
    /\ Drawn("b")
    /\ drawer["a"].created
    /\ supplied["a"].pitchNormalizeTo = Some("segment")
    /\ supplied["b"].pitchNormalizeTo = Undefined
    /\ LET acc == Aggregated("b")
       IN  /\ DOMAIN acc.pitches # {}
           /\ drawer["b"].pitches = ComputedNormalized(acc)
           /\ Lt(MinOf(ValuesOf(acc.averages)), MaxOf(ValuesOf(acc.averages)))
           /\ ComputedNormalized(acc) # FixedNormalized(acc.pitches, ParamsOf("b"))
           /\ ComputedNormalized(acc) #
                  NormalizedTo(acc.pitches, Val(acc.minPitch), acc.maxPitch)

\* C5: once the fetch has ended with a status other than 200, the series is
\* never loaded, nothing is emitted, and no draw request, deferred or new,
\* runs the pipeline.
C5_FailedFetchStalls ==
    \A i \in Instances :
        (drawer[i].ajax = "done" /\ drawer[i].status # 200) =>
            /\ ~drawer[i].pitchArrayLoaded
            /\ drawer[i].pitchArray = <<>>
            /\ drawer[i].fired = <<>>
            /\ drawer[i].draws = 0
            /\ drawer[i].pitches = EmptyPitches
            /\ drawer[i].markers = {}
            /\ \A e \in EventNames : \A j \in 1..Len(drawer[i].handlers[e]) :
                   drawer[i].handlers[e][j].runs = 0

\* the fetch has failed and draw requests were made, the last one after it
C5_Witness ==
    \E i \in Instances :
        /\ drawer[i].ajax = "done"
        /\ drawer[i].status = 404
        /\ drawer[i].requests = MaxDraws
        /\ lastCall.op = "drawPeaks"
        /\ lastCall.inst = i

\* C6 as claimed: every instance whose series is loaded, inline or from a
\* fetch, has emitted exactly one notification, with the series stored and
\* the flag set at that moment.
C6_OneNotificationPerLoad ==
    \A i \in Instances :
        drawer[i].pitchArrayLoaded =>
            /\ Len(drawer[i].fired) = 1
            /\ drawer[i].fired[1].loaded

\* C6 as amended: an instance whose fetch ended with status 200 has emitted
\* exactly one notification, 'pitch_array_loaded', with the series stored and
\* the flag set at that moment; any other instance, one loaded inline
\* included, has emitted none.
C6_OneNotificationPerFetch ==
    \A i \in Instances :
        /\ (drawer[i].ajax = "done" /\ drawer[i].status = 200) =>
               /\ Len(drawer[i].fired) = 1
               /\ drawer[i].fired[1].event = PitchArrayLoadedFired
               /\ drawer[i].fired[1].loaded
               /\ drawer[i].fired[1].series = drawer[i].pitchArray
               /\ drawer[i].pitchArrayLoaded
        /\ ~(drawer[i].ajax = "done" /\ drawer[i].status = 200) =>
               drawer[i].fired = <<>>

\* one instance loaded by a successful fetch and another loaded inline
C6_Witness ==
    \E i, j \in Instances :
        /\ drawer[i].ajax = "done" /\ drawer[i].status = 200
        /\ Len(drawer[i].pitchArray) > 0
        /\ drawer[j].ajax = "none" /\ drawer[j].pitchArrayLoaded

\* C7: after a draw whose normalisation range has min < max, every value of
\* the pitch map is in [0, 1]: 0 for an average below min, 1 for one above
\* max, (average - min) / (max - min) for one between.
C7_NormalizedInUnitInterval ==
    \A i \in Instances :
        Drawn(i) =>
            LET acc == Aggregated(i)
                range == NormalizeRange(ParamsOf(i), acc)
            IN  (DOMAIN acc.pitches # {} /\ Lt(Val(range.min), range.max)) =>
                    /\ DOMAIN drawer[i].pitches = DOMAIN acc.pitches
                    /\ \A k \in DOMAIN acc.pitches :
                          LET v == acc.pitches[k]
                              p == drawer[i].pitches[k]
                              min == Val(range.min)
                              max == range.max
                          IN  /\ p.d > 0 /\ 0 <= p.n /\ p.n <= p.d
                              /\ v.n * min.d < min.n * v.d => p.n = 0
                              /\ v.n * max.d > max.n * v.d => p.n = p.d
                              /\ (v.n * min.d >= min.n * v.d /\ v.n * max.d <= max.n * v.d)
                                    => p.n * (v.d * min.d) * (max.n * min.d - min.n * max.d)
                                       = p.d * (v.n * min.d - min.n * v.d) * (max.d * min.d)

\* a draw whose range has min < max and whose averages fall below, inside
\* and above the range
C7_Witness ==
    /\ Drawn("a")
    /\ LET acc == Aggregated("a")
           range == NormalizeRange(ParamsOf("a"), acc)
       IN  /\ DOMAIN acc.pitches # {}
           /\ Lt(Val(range.min), range.max)
           /\ \E k \in DOMAIN acc.pitches : Lt(acc.pitches[k], Val(range.min))
           /\ \E k \in DOMAIN acc.pitches : Gt(acc.pitches[k], range.max)
           /\ \E k \in DOMAIN acc.pitches :
                  Gt(acc.pitches[k], Val(range.min)) /\ Lt(acc.pitches[k], range.max)

\* C8: after a draw pass every key of the pitch map is a column in
\* 0..width-1 to which a sample of the window maps.
C8_KeysAreColumns ==
    \A i \in Instances :
        Drawn(i) =>
            \A k \in DOMAIN drawer[i].pitches :
                /\ k \in 0..(drawer[i].width - 1)
                /\ \E j \in 1..Len(InWindow(drawer[i])) :
                       ColumnOf(drawer[i], InWindow(drawer[i])[j]) = k

\* C9: a draw request on a loaded instance changes no parameter, and one
\* that repeats the request before it, with the same length, computes the
\* same row height and paints the same markers.
C9_DrawKeepsParams ==
    [][\A i \in Instances, length \in Widths :
          (drawer[i].pitchArrayLoaded /\ DrawPeaks(i, length)) =>
              /\ defaultCanvasPitchParams' = defaultCanvasPitchParams
              /\ (Drawn(i) /\ lastCall.length = length /\ ~lastCall'.threw) =>
                     /\ drawer'[i].rowHeight = drawer[i].rowHeight
                     /\ drawer'[i].markers = drawer[i].markers]_vars

\* C10: initDrawer leaves the pitch defaults as written in the source, and
\* the params of every initialised instance are those defaults overlaid with
\* what that instance was given (pixelRatio, which drawPeaks assigns, aside).
C10_InstancesAreIsolated ==
    /\ \A k \in ParamKeys \ {"pixelRatio", "height"} :
           defaultCanvasPitchParams[k] = DefaultParams[k]
    /\ \A i \in Instances :
           drawer[i].created =>
               \A k \in ParamKeys \ {"pixelRatio"} :
                   ParamsOf(i)[k] = extend(DefaultParams, supplied[i])[k]

====
